---- MODULE Spec2Model ----
(***************************************************************************)
(* Model of the deepfetch downloader (class AdvancedWebResourceDownloader, *)
(* src/unnamed/part_001): the session control surface start/stop/reset,    *)
(* the six-phase pipeline run by startDownload, the two-tier fetcher and   *)
(* the catalog (downloadedFiles, downloadedUrls, stats).                   *)
(*                                                                         *)
(* Granularity.  JavaScript runs a handler to completion; an async         *)
(* function gives up control only where it awaits network I/O.  One action *)
(* of the model is therefore either a click handler, or the completion of  *)
(* one network request of one pipeline followed by everything that         *)
(* pipeline does until it issues its next request or returns.              *)
(*                                                                         *)
(* Text.  File names and source paths are sequences of one-character       *)
(* strings, so that the string operations of the code (includes, endsWith, *)
(* split, replace) are computed.  URLs and MIME types are opaque strings;  *)
(* the platform's URL parser and the remote web are tables.                *)
(***************************************************************************)
EXTENDS Integers, Sequences, FiniteSets, TLC

\* ------------------------------------------------------------------------
\* Bounds
\* ------------------------------------------------------------------------

\* number of startDownload invocations that may be suspended at the same time
MaxPipelines == 2

\* ------------------------------------------------------------------------
\* Character-sequence helpers (String.prototype operations)
\* ------------------------------------------------------------------------

Last(s) == s[Len(s)]

StartsWith(s, p) == Len(p) <= Len(s) /\ SubSeq(s, 1, Len(p)) = p

EndsWith(s, p) == Len(p) <= Len(s) /\ SubSeq(s, Len(s) - Len(p) + 1, Len(s)) = p

Includes(s, p) == \E i \in 1..(Len(s) - Len(p) + 1) : SubSeq(s, i, i + Len(p) - 1) = p

DropFirst(s, n) == SubSeq(s, n + 1, Len(s))

\* index of the first occurrence of character c in s, 0 when absent
IndexOf(s, c) == IF \E i \in 1..Len(s) : s[i] = c
                 THEN CHOOSE i \in 1..Len(s) : s[i] = c /\ \A j \in 1..(i - 1) : s[j] # c
                 ELSE 0

\* index of the last occurrence of character c in s, 0 when absent
LastIndexOf(s, c) == IF \E i \in 1..Len(s) : s[i] = c
                     THEN CHOOSE i \in 1..Len(s) : s[i] = c /\ \A j \in (i + 1)..Len(s) : s[j] # c
                     ELSE 0

\* the characters the code replaces by "_" in file names: /[<>:"|?*]/g
UnsafeChars == {"<", ">", ":", "\"", "|", "?", "*"}

ReplaceUnsafe(s) == [i \in 1..Len(s) |-> IF s[i] \in UnsafeChars THEN "_" ELSE s[i]]

\* s.replace(/\?.*$/, '')
StripQuery(s) == IF IndexOf(s, "?") = 0 THEN s ELSE SubSeq(s, 1, IndexOf(s, "?") - 1)

\* ------------------------------------------------------------------------
\* The platform: URL parsing and resolution
\* ------------------------------------------------------------------------

RootUrl == "https://x.test/"
ScriptA == "https://x.test/p/a.js"
ScriptB == "https://x.test/q/a.js"
MapA    == "https://x.test/p/a.js.map"
ApiU    == "https://x.test/api/u"
\* a second site: a page with one script
SmallUrl == "https://y.test/"
ScriptY  == "https://y.test/b.js"
\* a third site: a page without scripts, with a frame and an icon under the scheme httpx
FrameUrl == "https://z.test/"
IconX    == "httpx://cdn.test/i.ico"
\* a fourth site: a page with one script and a preconnect link to the second site
PortalUrl == "https://w.test/"
ScriptW   == "https://w.test/c.js"

NoUrl == "null"

\* new URL(string): protocol, origin, the directory of the path, the path
\* split at "/" (its last element is what pathname.split('/').pop() gives; an
\* empty last element means the path ends with "/") and the query string.
URLParse(s) ==
  CASE s = RootUrl -> [ok |-> TRUE, protocol |-> "https:", origin |-> "https://x.test",
                       dir |-> "/", segs |-> << <<>> >>, search |-> <<>>]
    [] s = ScriptA -> [ok |-> TRUE, protocol |-> "https:", origin |-> "https://x.test",
                       dir |-> "/p/", segs |-> << <<"p">>, <<"a", ".", "j", "s">> >>, search |-> <<>>]
    [] s = ScriptB -> [ok |-> TRUE, protocol |-> "https:", origin |-> "https://x.test",
                       dir |-> "/q/", segs |-> << <<"q">>, <<"a", ".", "j", "s">> >>, search |-> <<>>]
    [] s = MapA    -> [ok |-> TRUE, protocol |-> "https:", origin |-> "https://x.test",
                       dir |-> "/p/",
                       segs |-> << <<"p">>, <<"a", ".", "j", "s", ".", "m", "a", "p">> >>,
                       search |-> <<>>]
    [] s = ApiU    -> [ok |-> TRUE, protocol |-> "https:", origin |-> "https://x.test",
                       dir |-> "/api/", segs |-> << <<"a", "p", "i">>, <<"u">> >>, search |-> <<>>]
    [] s = SmallUrl -> [ok |-> TRUE, protocol |-> "https:", origin |-> "https://y.test",
                       dir |-> "/", segs |-> << <<>> >>, search |-> <<>>]
    [] s = ScriptY -> [ok |-> TRUE, protocol |-> "https:", origin |-> "https://y.test",
                       dir |-> "/", segs |-> << <<"b", ".", "j", "s">> >>, search |-> <<>>]
    [] s = "ftp://x.test/" -> [ok |-> TRUE, protocol |-> "ftp:", origin |-> "null",
                       dir |-> "/", segs |-> << <<>> >>, search |-> <<>>]
    [] s = FrameUrl -> [ok |-> TRUE, protocol |-> "https:", origin |-> "https://z.test",
                       dir |-> "/", segs |-> << <<>> >>, search |-> <<>>]
    [] s = "https://z.test/f.html" -> [ok |-> TRUE, protocol |-> "https:",
                       origin |-> "https://z.test", dir |-> "/",
                       segs |-> << <<"f", ".", "h", "t", "m", "l">> >>, search |-> <<>>]
    [] s = IconX -> [ok |-> TRUE, protocol |-> "httpx:", origin |-> "null",
                       dir |-> "/", segs |-> << <<"i", ".", "i", "c", "o">> >>, search |-> <<>>]
    [] s = PortalUrl -> [ok |-> TRUE, protocol |-> "https:", origin |-> "https://w.test",
                       dir |-> "/", segs |-> << <<>> >>, search |-> <<>>]
    [] s = ScriptW -> [ok |-> TRUE, protocol |-> "https:", origin |-> "https://w.test",
                       dir |-> "/", segs |-> << <<"c", ".", "j", "s">> >>, search |-> <<>>]
    [] s = "https://w.test/api/u" -> [ok |-> TRUE, protocol |-> "https:",
                       origin |-> "https://w.test", dir |-> "/api/",
                       segs |-> << <<"a", "p", "i">>, <<"u">> >>, search |-> <<>>]
    [] s = "https://y.test/api/u" -> [ok |-> TRUE, protocol |-> "https:",
                       origin |-> "https://y.test", dir |-> "/api/",
                       segs |-> << <<"a", "p", "i">>, <<"u">> >>, search |-> <<>>]
    [] OTHER -> [ok |-> FALSE, protocol |-> "", origin |-> "", dir |-> "",
                 segs |-> << <<>> >>, search |-> <<>>]

\* the shape of a reference given to new URL(ref, base)
RefShape(ref) ==
  CASE ref = "" -> "empty"
    [] ref \in {"/p/a.js", "/q/a.js", "/api/u", "/b.js", "/f.html", "/c.js"} -> "rooted"
    [] ref \in {"a.js.map"} -> "relative"
    [] ref \in {RootUrl, ScriptA, ScriptB, MapA, ApiU, SmallUrl, ScriptY, FrameUrl, IconX,
                 PortalUrl, ScriptW}
         -> "absolute"
    [] ref \in {"data:image/png;base64,AA"} -> "data:"
    [] ref \in {"#top"} -> "#"
    [] ref \in {"mailto:a@x.test"} -> "mailto:"
    [] ref \in {"tel:1"} -> "tel:"
    [] OTHER -> "invalid"

\* new URL(ref, base).href; NoUrl stands for the TypeError the constructor throws
URLResolve(ref, base) ==
  LET b == URLParse(base)
      shape == RefShape(ref)
  IN  IF shape = "absolute" THEN ref
      ELSE IF ~b.ok \/ shape = "invalid" THEN NoUrl
      ELSE IF shape = "rooted" THEN b.origin \o ref
      ELSE IF shape = "relative" THEN b.origin \o b.dir \o ref
      ELSE IF shape = "empty" THEN base
      ELSE ref

\* href.startsWith('http'): the protocols of the URLs above whose text begins with "http"
HttpPrefixed == {"http:", "https:", "httpx:"}

\* ------------------------------------------------------------------------
\* The platform: MIME strings
\* ------------------------------------------------------------------------

\* contentType.includes(word), for the words the code tests
CtWords(ct) ==
  CASE ct = "text/html" -> {"text", "html"}
    [] ct = "text/css" -> {"text", "css"}
    [] ct = "text/plain" -> {"text"}
    [] ct = "application/javascript" -> {"javascript"}
    [] ct = "application/json" -> {"json"}
    [] ct = "image/png" -> {"image", "png"}
    [] OTHER -> {}

CtIncludes(ct, word) == word \in CtWords(ct)

\* ------------------------------------------------------------------------
\* The remote web: what each URL serves and what the bodies contain
\* ------------------------------------------------------------------------

\* content-type header and the bodies a successful request may deliver
Served(url) ==
  CASE url = RootUrl -> [ct |-> "text/html", bodies |-> {"HTML", "HTMLBAD"}]
    [] url = ScriptA -> [ct |-> "application/javascript", bodies |-> {"JSA"}]
    [] url = ScriptB -> [ct |-> "application/javascript", bodies |-> {"JSB"}]
    [] url = MapA    -> [ct |-> "application/json", bodies |-> {"MAPA", "MAPNC", "MAPBAD"}]
    [] url = ApiU    -> [ct |-> "application/json", bodies |-> {"APIU"}]
    [] url = SmallUrl -> [ct |-> "text/html", bodies |-> {"HTMLY"}]
    [] url = ScriptY -> [ct |-> "application/javascript", bodies |-> {"JSY"}]
    [] url = FrameUrl -> [ct |-> "text/html", bodies |-> {"HTMLZ"}]
    [] url = PortalUrl -> [ct |-> "text/html", bodies |-> {"HTMLW"}]
    [] url = ScriptW -> [ct |-> "application/javascript", bodies |-> {"JSW"}]
    [] OTHER -> [ct |-> "application/octet-stream", bodies |-> {"BIN"}]

\* content.length of a body
BodyLen(b) ==
  CASE b = "HTML" -> 9 [] b = "HTMLBAD" -> 2 [] b = "JSA" -> 7 [] b = "JSB" -> 5
    [] b = "MAPA" -> 8 [] b = "MAPNC" -> 6 [] b = "MAPBAD" -> 3 [] b = "APIU" -> 4
    [] b = "HTMLY" -> 4 [] b = "JSY" -> 3 [] b = "HTMLZ" -> 7 [] b = "HTMLW" -> 6 [] b = "JSW" -> 2
    [] b = "SRC1" -> 6 [] b = "SRC2" -> 1 [] b = "SRC3" -> 2 [] b = "SRC4" -> 3 [] b = "SRC5" -> 5
    [] OTHER -> 0

\* an attribute the element does not have (getAttribute gives null)
NoAttr == "<none>"

Element(tag, rel, href, src) == [tag |-> tag, rel |-> rel, href |-> href, src |-> src]

\* DOMParser.parseFromString(html, 'text/html'): the elements of the document
\* that carry href or src, in document order; ok is FALSE when the parser throws
Elements(b) ==
  CASE b = "HTML" -> [ok |-> TRUE, els |->
         << Element("script", NoAttr, NoAttr, "/p/a.js"),
            Element("script", NoAttr, NoAttr, "/q/a.js"),
            Element("img", NoAttr, NoAttr, "data:image/png;base64,AA"),
            Element("link", "icon", "#top", NoAttr) >>]
    [] b = "HTMLY" -> [ok |-> TRUE, els |-> << Element("script", NoAttr, NoAttr, "/b.js") >>]
    [] b = "HTMLZ" -> [ok |-> TRUE, els |->
         << Element("iframe", NoAttr, NoAttr, "/f.html"),
            Element("link", "stylesheet", "", NoAttr),
            Element("link", "icon", IconX, NoAttr),
            Element("link", "author", "mailto:a@x.test", NoAttr),
            Element("link", "help", "tel:1", NoAttr),
            Element("link", "next", "http://[", NoAttr) >>]
    [] b = "HTMLW" -> [ok |-> TRUE, els |->
         << Element("script", NoAttr, NoAttr, "/c.js"),
            Element("link", "preconnect", SmallUrl, NoAttr) >>]
    [] OTHER -> [ok |-> FALSE, els |-> <<>>]

\* getAttribute(attr) of each of the elements a selector matched
AttrValues(matched, attr) == [k \in 1..Len(matched) |-> matched[k][attr]]

\* the four querySelectorAll calls of extractScripts / extractStylesheets /
\* extractImages / extractOtherResources with the attribute each one reads
ParseHTML(b) ==
  LET doc == Elements(b) IN
  [ok |-> doc.ok,
   scripts |-> AttrValues(SelectSeq(doc.els, LAMBDA e : e.tag = "script" /\ e.src # NoAttr),
                          "src"),
   stylesheets |-> AttrValues(SelectSeq(doc.els,
                                LAMBDA e : e.tag = "link" /\ e.rel = "stylesheet"), "href"),
   images |-> AttrValues(SelectSeq(doc.els, LAMBDA e : e.tag = "img" /\ e.src # NoAttr), "src"),
   links |-> AttrValues(SelectSeq(doc.els,
                          LAMBDA e : e.tag = "link" /\ e.href # NoAttr /\ e.rel # "stylesheet"),
                        "href")]

\* file.content.match(/\/\/[@#]\s*sourceMappingURL=(.+)$/m): the captured path, "" when no match
MapRef(b) == IF b = "JSA" THEN "a.js.map" ELSE ""

\* content.match(/['"`]\/api\/[^'"`\s]+['"`]/g) with the quotes removed
ApiLiterals(b) == IF b \in {"JSA", "JSW"} THEN <<"/api/u">> ELSE <<>>

\* content.match(/['"`]https?:\/\/[^'"`\s]+['"`]/g) with the quotes removed
UrlLiterals(b) == IF b = "JSA" THEN <<RootUrl>> ELSE <<>>

WebpackApp == <<"w", "e", "b", "p", "a", "c", "k", ":", "/", "/", "/", ".", "/", "m", ".", "j", "s">>
LibU == <<"l", "/", "u", ".", "j", "s">>
WebpackBootstrap == <<"w", "e", "b", "p", "a", "c", "k", "/", "b", "o", "o", "t", "s", "t", "r", "a", "p">>
DotLibU == <<".", "/", "l", "/", "u", ".", "j", "s">>
OneChar == <<"x">>

\* JSON.parse(mapContent): sources and sourcesContent of the map ("" is an empty text)
ParseJSON(b) ==
  CASE b = "MAPA" -> [ok |-> TRUE, hasSources |-> TRUE, hasContent |-> TRUE,
                      sources |-> <<WebpackApp, LibU, WebpackBootstrap, LibU, DotLibU, OneChar>>,
                      sourcesContent |-> <<"SRC1", "SRC2", "SRC3", "", "SRC4", "SRC5">>]
    [] b = "MAPNC" -> [ok |-> TRUE, hasSources |-> TRUE, hasContent |-> FALSE,
                       sources |-> <<LibU, DotLibU>>, sourcesContent |-> <<>>]
    [] OTHER -> [ok |-> FALSE, hasSources |-> FALSE, hasContent |-> FALSE,
                 sources |-> <<>>, sourcesContent |-> <<>>]

\* ------------------------------------------------------------------------
\* File naming and typing (utility methods)
\* ------------------------------------------------------------------------

IndexHtml == <<"i", "n", "d", "e", "x", ".", "h", "t", "m", "l">>
IndexCss  == <<"i", "n", "d", "e", "x", ".", "c", "s", "s">>
IndexJs   == <<"i", "n", "d", "e", "x", ".", "j", "s">>
IndexBin  == <<"i", "n", "d", "e", "x", ".", "b", "i", "n">>
\* `resource_${Date.now()}.bin`, T standing for the time stamp
ResourceBin == <<"r", "e", "s", "o", "u", "r", "c", "e", "_", "T", ".", "b", "i", "n">>

getDefaultFilename(contentType) ==
  IF CtIncludes(contentType, "html") THEN IndexHtml
  ELSE IF CtIncludes(contentType, "css") THEN IndexCss
  ELSE IF CtIncludes(contentType, "javascript") THEN IndexJs
  ELSE IndexBin

getExtensionFromContentType(contentType) ==
  IF CtIncludes(contentType, "html") THEN <<".", "h", "t", "m", "l">>
  ELSE IF CtIncludes(contentType, "css") THEN <<".", "c", "s", "s">>
  ELSE IF CtIncludes(contentType, "javascript") THEN <<".", "j", "s">>
  ELSE IF CtIncludes(contentType, "json") THEN <<".", "j", "s", "o", "n">>
  ELSE IF CtIncludes(contentType, "png") THEN <<".", "p", "n", "g">>
  ELSE IF CtIncludes(contentType, "jpeg") THEN <<".", "j", "p", "g">>
  ELSE IF CtIncludes(contentType, "gif") THEN <<".", "g", "i", "f">>
  ELSE IF CtIncludes(contentType, "svg+xml") THEN <<".", "s", "v", "g">>
  ELSE <<".", "b", "i", "n">>

\* urlObj.search.slice(1).replace(/[=&]/g, '_').substring(0, 20)
QuerySuffix(search) ==
  LET q == DropFirst(search, 1)
      r == [i \in 1..Len(q) |-> IF q[i] \in {"=", "&"} THEN "_" ELSE q[i]]
  IN  SubSeq(r, 1, IF Len(r) < 20 THEN Len(r) ELSE 20)

generateFilename(url, contentType) ==
  LET urlObj == URLParse(url)
      pathname == urlObj.segs
      filename0 == Last(pathname)
      hasExtension == Includes(filename0, <<".">>)
      filename1 == IF urlObj.search # <<>> /\ ~hasExtension
                   THEN filename0 \o <<"_">> \o QuerySuffix(urlObj.search)
                   ELSE filename0
      filename2 == StripQuery(filename1)
      filename3 == IF ~hasExtension
                   THEN filename2 \o getExtensionFromContentType(contentType)
                   ELSE filename2
  IN  IF ~urlObj.ok THEN ResourceBin
      ELSE IF Last(pathname) = <<>> THEN getDefaultFilename(contentType)
      ELSE IF ReplaceUnsafe(filename3) = <<>> THEN ResourceBin
      ELSE ReplaceUnsafe(filename3)

\* filename.split('.').pop() (the names of this model have no upper case)
Extension(filename) == DropFirst(filename, LastIndexOf(filename, "."))

determineFileType(filename, contentType) ==
  LET ext == Extension(filename) IN
  IF CtIncludes(contentType, "javascript") THEN "script"
  ELSE IF CtIncludes(contentType, "css") THEN "stylesheet"
  ELSE IF CtIncludes(contentType, "image") THEN "image"
  ELSE IF CtIncludes(contentType, "html") THEN "html"
  ELSE IF ext \in {<<"j", "s">>, <<"j", "s", "x">>, <<"t", "s">>, <<"t", "s", "x">>} THEN "script"
  ELSE IF ext \in {<<"c", "s", "s">>, <<"s", "c", "s", "s">>} THEN "stylesheet"
  ELSE IF ext \in {<<"p", "n", "g">>, <<"j", "p", "g">>, <<"j", "p", "e", "g">>,
                   <<"g", "i", "f">>, <<"s", "v", "g">>} THEN "image"
  ELSE IF ext \in {<<"h", "t", "m", "l">>, <<"h", "t", "m">>} THEN "html"
  ELSE IF ext = <<"m", "a", "p">> THEN "sourcemap"
  ELSE "other"

\* getResponseContent: TRUE when the body is read with text(), FALSE when with arrayBuffer()
ReadsAsText(contentType) ==
  \/ CtIncludes(contentType, "text")
  \/ CtIncludes(contentType, "javascript")
  \/ CtIncludes(contentType, "json")
  \/ CtIncludes(contentType, "css")

\* isValidUrl as it would be without the protocol test
isValidUrlAnyProtocol(string) == URLParse(string).ok

isValidUrl(string) ==
  LET url == URLParse(string) IN
  IF url.ok THEN url.protocol = "http:" \/ url.protocol = "https:" ELSE FALSE

\* ------------------------------------------------------------------------
\* Source-map paths
\* ------------------------------------------------------------------------

Webpack2 == <<"w", "e", "b", "p", "a", "c", "k", ":", "/", "/">>

skipPatterns ==
  { <<"w", "e", "b", "p", "a", "c", "k", "/">>,
    <<"n", "o", "d", "e", "_", "m", "o", "d", "u", "l", "e", "s", "/">>,
    <<"w", "e", "b", "p", "a", "c", "k", ":", "/", "/", "/">>,
    <<"(", "w", "e", "b", "p", "a", "c", "k", ")">>,
    <<"w", "e", "b", "p", "a", "c", "k", "/", "b", "o", "o", "t", "s", "t", "r", "a", "p">>,
    <<"w", "e", "b", "p", "a", "c", "k", "/", "r", "u", "n", "t", "i", "m", "e">> }

\* sourceContent is the id of a text, "" the empty text
shouldExtractSource(sourcePath, sourceContent) ==
  IF sourceContent = "" \/ sourcePath = <<>> THEN FALSE
  ELSE ~ \E pattern \in skipPatterns : Includes(sourcePath, pattern)

cleanSourcePath(sourcePath) ==
  LET s1 == IF StartsWith(sourcePath, <<"/">>) THEN DropFirst(sourcePath, 1) ELSE sourcePath
      rest == DropFirst(s1, Len(Webpack2))
      s2 == IF StartsWith(s1, Webpack2) /\ IndexOf(rest, "/") # 0
            THEN DropFirst(rest, IndexOf(rest, "/"))
            ELSE s1
      s3 == IF StartsWith(s2, Webpack2) THEN DropFirst(s2, Len(Webpack2)) ELSE s2
      s4 == IF StartsWith(s3, <<".", "/">>) THEN DropFirst(s3, 2) ELSE s3
      s5 == StripQuery(s4)
  IN  ReplaceUnsafe(s5)

\* ------------------------------------------------------------------------
\* State
\* ------------------------------------------------------------------------

VARIABLES
  downloadedFiles,  \* this.downloadedFiles: the Map, as its entries in insertion order
  downloadedUrls,   \* this.downloadedUrls
  isDownloading,    \* this.isDownloading
  stats,            \* this.stats
  startDisabled,    \* #start-download .disabled
  errorBox,         \* the alert #error-container shows: "none", "error" or "success"
  progress,         \* the percentage last given to updateProgress
  proc,             \* the invocations of startDownload: where each one is suspended
  cur,              \* the invocation made by the latest accepted start(), 0 before the first
  last,             \* history: the fetch completed and the records saved in the last step
  cancelled,        \* history: the invocations a stop() found suspended (until the click after their return)
  stopActive,       \* history: stop() hit a running session and no start/reset came since
  origin,           \* history: whether the current session was started right after reset()
  writers,          \* history: the invocations that saved into the current catalog
  relay             \* the relay function: the request it serves and the answer it gives

vars == <<downloadedFiles, downloadedUrls, isDownloading, stats, startDisabled, errorBox,
          progress, proc, cur, last, cancelled, stopActive, origin, writers, relay>>

Procs == 1..MaxPipelines

\* what the user may type into #target-url
Targets == {"", " ", "not a url", "ftp://x.test/", RootUrl, SmallUrl, FrameUrl, PortalUrl}

\* the sites on which a start() during the unwinding of an earlier invocation is explored
OverlapTargets == {SmallUrl}

\* String.prototype.trim
Trim(t) == IF t = " " THEN "" ELSE t

ZeroStats == [totalFiles |-> 0, sourceFiles |-> 0, jsFiles |-> 0, cssFiles |-> 0,
              imageFiles |-> 0, totalSize |-> 0]

NoReq == [url |-> NoUrl, stage |-> "none"]

DirectReq(url) == [url |-> url, stage |-> "direct"]

\* a startDownload invocation that has not been made yet
IdleProc == [pc |-> "idle", target |-> NoUrl, req |-> NoReq,
                resourceUrls |-> <<>>, i |-> 0, downloaded |-> 0,
                jsFiles |-> <<>>, endpoints |-> <<>>,
                outcome |-> "none", ran |-> {}, degraded |-> FALSE,
                pct |-> 0, got |-> {}]

\* the shared object and page, as one record handed through a synchronous run
Globals == [files |-> downloadedFiles, urls |-> downloadedUrls, on |-> isDownloading,
            stats |-> stats, disabled |-> startDisabled, err |-> errorBox,
            progress |-> progress, puts |-> <<>>, pcts |-> <<>>, logs |-> <<>>,
            counts |-> <<>>]

\* ------------------------------------------------------------------------
\* The catalog
\* ------------------------------------------------------------------------

MapHas(files, filename) == \E k \in 1..Len(files) : files[k].name = filename

MapGet(files, filename) == files[CHOOSE k \in 1..Len(files) : files[k].name = filename].file

\* Map.prototype.set: an existing key keeps its position and takes the new value
MapSet(files, filename, fileData) ==
  IF MapHas(files, filename)
  THEN [k \in 1..Len(files) |->
          IF files[k].name = filename THEN [name |-> filename, file |-> fileData] ELSE files[k]]
  ELSE Append(files, [name |-> filename, file |-> fileData])

SrcDir == <<"s", "r", "c", "/">>

\* saveFile as it would be if the byte total were not kept
saveFileStaleSize(g, filename, fileData) ==
  [g EXCEPT !.files = MapSet(g.files, filename, fileData),
            !.stats = [g.stats EXCEPT !.totalFiles = @ + 1],
            !.puts = Append(g.puts, [name |-> filename, size |-> fileData.size])]

saveFile(g, filename, fileData) ==
  LET kind == IF StartsWith(filename, SrcDir) THEN "sourceFiles"
              ELSE IF EndsWith(filename, <<".", "j", "s">>) THEN "jsFiles"
              ELSE IF EndsWith(filename, <<".", "c", "s", "s">>) THEN "cssFiles"
              ELSE IF fileData.type = "image" THEN "imageFiles"
              ELSE "none"
      s1 == [g.stats EXCEPT !.totalFiles = @ + 1, !.totalSize = @ + fileData.size]
      s2 == IF kind = "none" THEN s1 ELSE [s1 EXCEPT ![kind] = @ + 1]
  IN  [g EXCEPT !.files = MapSet(g.files, filename, fileData),
                !.stats = s2,
                !.puts = Append(g.puts, [name |-> filename, size |-> fileData.size])]

\* ------------------------------------------------------------------------
\* The pipeline: each operator is the synchronous run of the code from one
\* point up to the next network request, as the pair of the shared state g
\* and the invocation's locals l it leaves
\* ------------------------------------------------------------------------

\* log(message, level) with level 'warn' or 'error': the line is kept as its
\* level and what the message names (the lines of level 'info' are not kept)
log(g, level, about) == [g EXCEPT !.logs = Append(@, [level |-> level, about |-> about])]

\* showError: the alert and its log line
showError(g, about) == log([g EXCEPT !.err = "error"], "error", about)

\* updateProgress: the bar takes the percentage (the message is a line of level 'info')
updateProgress(g, percentage) ==
  [g EXCEPT !.progress = percentage, !.pcts = Append(@, percentage)]

\* finalizeDownload as it would be without re-enabling the start button
finalizeDownloadKeepsDisabled(g) == [g EXCEPT !.on = FALSE]

finalizeDownload(g) == [g EXCEPT !.on = FALSE, !.disabled = FALSE]

\* executeDownloadProcess from Phase 6 on, then the finally block of startDownload
Finish(g, l) ==
  [g |-> finalizeDownload([updateProgress(g, 100) EXCEPT !.err = "success"]),
   l |-> [IdleProc EXCEPT !.pc = "done", !.outcome = "complete", !.ran = l.ran,
                                !.degraded = l.degraded]]

\* the catch block of startDownload (handleDownloadError), then the finally block
handleDownloadError(g, l) ==
  [g |-> finalizeDownload(showError(log(g, "error", "main page"), "main page")),
   l |-> [IdleProc EXCEPT !.pc = "done", !.outcome = "failed", !.ran = l.ran,
                                !.degraded = l.degraded]]

SetAdd(seq, x) == IF \E k \in 1..Len(seq) : seq[k] = x THEN seq ELSE Append(seq, x)

\* extractApiEndpoints: every /api/ literal of one script, resolved against baseUrl
RECURSIVE extractApiEndpoints(_, _, _)
extractApiEndpoints(lits, baseUrl, endpoints) ==
  IF lits = <<>> THEN endpoints
  ELSE LET fullUrl == URLResolve(Head(lits), baseUrl) IN
       extractApiEndpoints(Tail(lits), baseUrl,
                           IF fullUrl = NoUrl THEN endpoints ELSE SetAdd(endpoints, fullUrl))

\* extractResourceUrls: every absolute literal of one script that is not yet visited
RECURSIVE extractResourceUrls(_, _, _)
extractResourceUrls(lits, urls, endpoints) ==
  IF lits = <<>> THEN endpoints
  ELSE extractResourceUrls(Tail(lits), urls,
                           IF Head(lits) \in urls THEN endpoints
                           ELSE SetAdd(endpoints, Head(lits)))

RECURSIVE ScanFiles(_, _, _, _)
ScanFiles(files, baseUrl, urls, endpoints) ==
  IF files = <<>> THEN endpoints
  ELSE LET file == Head(files).file IN
       ScanFiles(Tail(files), baseUrl, urls,
                 IF file.type = "script" /\ file.text
                 THEN extractResourceUrls(UrlLiterals(file.content), urls,
                        extractApiEndpoints(ApiLiterals(file.content), baseUrl, endpoints))
                 ELSE endpoints)

extractEndpointsFromCode(g) ==
  LET baseUrl == IF MapHas(g.files, IndexHtml) THEN MapGet(g.files, IndexHtml).url ELSE NoUrl
  IN  IF baseUrl = NoUrl THEN <<>> ELSE ScanFiles(g.files, baseUrl, g.urls, <<>>)

\* the loop of findDynamicResources, from its i-th endpoint (downloadedCount,
\* which only feeds a log line, is not kept)
RECURSIVE DynamicLoop(_, _, _)
DynamicLoop(g, l, i) ==
  IF i > Len(l.endpoints) \/ ~g.on THEN Finish(updateProgress(g, 95), l)
  ELSE IF l.endpoints[i] \in g.urls
       THEN DynamicLoop(g, l, i + 1)
       ELSE [g |-> g, l |-> [l EXCEPT !.pc = "dynamic", !.i = i, !.req = DirectReq(l.endpoints[i])]]

findDynamicResources(g, l) ==
  DynamicLoop(updateProgress(g, 85),
              [l EXCEPT !.endpoints = extractEndpointsFromCode(g),
                        !.ran = @ \cup {"dynamic"}], 1)

isJavaScriptFile(filename, file) ==
  /\ \/ EndsWith(filename, <<".", "j", "s">>)
     \/ file.type = "script"
     \/ CtIncludes(file.contentType, "javascript")
  /\ file.text

getJavaScriptFiles(files) == SelectSeq(files, LAMBDA e : isJavaScriptFile(e.name, e.file))

findSourceMapUrl(file) ==
  LET mapPath == MapRef(file.content) IN
  IF mapPath = "" THEN NoUrl
  ELSE IF RefShape(mapPath) = "absolute" THEN mapPath
  ELSE URLResolve(mapPath, file.url)

\* the loop of processSourceMaps, from its i-th script (totalSourceFiles,
\* which only feeds a log line, is not kept)
RECURSIVE SourceMapLoop(_, _, _)
SourceMapLoop(g, l, i) ==
  IF i > Len(l.jsFiles) \/ ~g.on THEN findDynamicResources(g, l)
  ELSE IF MapRef(l.jsFiles[i].file.content) = "" THEN SourceMapLoop(g, l, i + 1)
  ELSE IF findSourceMapUrl(l.jsFiles[i].file) = NoUrl
       THEN SourceMapLoop(log(g, "warn", "source map URL"), l, i + 1)
  ELSE [g |-> g, l |-> [l EXCEPT !.pc = "maps", !.i = i,
                                  !.req = DirectReq(findSourceMapUrl(l.jsFiles[i].file))]]

processSourceMaps(g, l) ==
  SourceMapLoop(updateProgress(g, 70),
                [l EXCEPT !.jsFiles = getJavaScriptFiles(g.files),
                          !.ran = @ \cup {"maps"}], 1)

\* the percentage of the static phase as it would be without the division by total
StaticProgressNoTotal(downloaded, total) == 40 + downloaded * 30

\* 40 + (downloaded / total) * 30
StaticProgress(downloaded, total) == 40 + (downloaded * 30) \div total

\* the loop of downloadStaticResources, from its i-th URL
RECURSIVE StaticLoop(_, _, _)
StaticLoop(g, l, i) ==
  IF i > Len(l.resourceUrls) \/ ~g.on THEN processSourceMaps(g, l)
  ELSE IF l.resourceUrls[i] \in g.urls
       THEN StaticLoop(updateProgress(g, StaticProgress(l.downloaded + 1, Len(l.resourceUrls))),
                       [l EXCEPT !.downloaded = @ + 1], i + 1)
       ELSE [g |-> g, l |-> [l EXCEPT !.pc = "static", !.i = i, !.req = DirectReq(l.resourceUrls[i])]]

downloadStaticResources(g, l, resourceUrls) ==
  StaticLoop(updateProgress(g, 40),
             [l EXCEPT !.resourceUrls = resourceUrls, !.downloaded = 0,
                       !.ran = @ \cup {"static"}], 1)

\* addResourceUrl: the resolver applied to one attribute value
addResourceUrl(url, base, resourceUrls) ==
  IF RefShape(url) \in {"empty", "data:", "#", "mailto:", "tel:"} THEN resourceUrls
  ELSE LET fullUrl == URLResolve(url, base) IN
       IF fullUrl = NoUrl THEN resourceUrls
       ELSE IF URLParse(fullUrl).protocol \in HttpPrefixed THEN SetAdd(resourceUrls, fullUrl)
       ELSE resourceUrls

RECURSIVE AddAll(_, _, _)
AddAll(refs, base, resourceUrls) ==
  IF refs = <<>> THEN resourceUrls
  ELSE AddAll(Tail(refs), base, addResourceUrl(Head(refs), base, resourceUrls))

extractStaticResources(html, baseUrl) ==
  LET doc == ParseHTML(html) IN
  IF ~doc.ok THEN <<>>
  ELSE AddAll(doc.links, baseUrl,
         AddAll(doc.images, baseUrl,
           AddAll(doc.stylesheets, baseUrl,
             AddAll(doc.scripts, baseUrl, <<>>))))

\* the attribute values for which the catch block of addResourceUrl runs
InvalidRefs(refs, base) ==
  SelectSeq(refs, LAMBDA url : /\ RefShape(url) \notin {"empty", "data:", "#", "mailto:", "tel:"}
                               /\ URLResolve(url, base) = NoUrl)

RECURSIVE LogAll(_, _, _)
LogAll(g, level, abouts) ==
  IF abouts = <<>> THEN g ELSE LogAll(log(g, level, Head(abouts)), level, Tail(abouts))

\* the lines of level 'warn' extractStaticResources and addResourceUrl write
extractStaticResourcesLog(g, html, baseUrl) ==
  LET doc == ParseHTML(html) IN
  IF ~doc.ok THEN log(g, "warn", "HTML")
  ELSE LogAll(g, "warn", InvalidRefs(doc.scripts, baseUrl) \o InvalidRefs(doc.stylesheets, baseUrl)
                           \o InvalidRefs(doc.images, baseUrl) \o InvalidRefs(doc.links, baseUrl))

\* the loop of extractSourceFilesFromMap from index i; acc is [g, count]
RECURSIVE ExtractLoop(_, _, _)
ExtractLoop(acc, sourceMap, i) ==
  IF i > Len(sourceMap.sources) THEN acc
  ELSE LET sourcePath == sourceMap.sources[i]
           sourceContent == IF i <= Len(sourceMap.sourcesContent)
                            THEN sourceMap.sourcesContent[i] ELSE ""
       IN  IF shouldExtractSource(sourcePath, sourceContent)
           THEN ExtractLoop([g |-> saveFile(acc.g, SrcDir \o cleanSourcePath(sourcePath),
                                     [content |-> sourceContent, text |-> TRUE,
                                      size |-> BodyLen(sourceContent), type |-> "source",
                                      url |-> NoUrl, contentType |-> ""]),
                             count |-> acc.count + 1],
                            sourceMap, i + 1)
           ELSE ExtractLoop(acc, sourceMap, i + 1)

extractSourceFilesFromMap(g, mapContent) ==
  LET sourceMap == ParseJSON(mapContent) IN
  IF ~sourceMap.ok THEN [g |-> log(g, "error", "source map"), count |-> 0, ok |-> FALSE]
  ELSE IF ~sourceMap.hasSources \/ ~sourceMap.hasContent
       THEN [g |-> log(g, "warn", "source map"), count |-> 0, ok |-> TRUE]
  ELSE LET acc == ExtractLoop([g |-> g, count |-> 0], sourceMap, 1)
       IN  [g |-> acc.g, count |-> acc.count, ok |-> TRUE]

\* ------------------------------------------------------------------------
\* The fetcher
\* ------------------------------------------------------------------------

\* how a request may end: a 2xx response whose body can be read, a 2xx
\* response whose body cannot, a response with another status, no response
Outcomes == {"ok", "unreadable", "status", "neterr"}

\* fetchWithCORS at the completion of its pending request: it returns a
\* response, or goes on to the relay, or throws
fetchWithCORS(req, net, body) ==
  IF req.stage = "direct"
  THEN IF net \in {"ok", "unreadable"}
       THEN [tag |-> "response", contentType |-> Served(req.url).ct, body |-> body,
             readable |-> (net = "ok"), logs |-> <<>>]
       ELSE [tag |-> "proxy", contentType |-> "", body |-> "", readable |-> FALSE,
             logs |-> IF net = "neterr" THEN <<[level |-> "warn", about |-> req.url]>>
                      ELSE <<>>]
  ELSE IF net \in {"ok", "unreadable"}
       THEN [tag |-> "response", contentType |-> "text/plain", body |-> body,
             readable |-> (net = "ok"), logs |-> <<>>]
       ELSE [tag |-> "throw", contentType |-> "", body |-> "", readable |-> FALSE,
             logs |-> <<>>]

getContentType(r) == IF r.contentType = "" THEN "application/octet-stream" ELSE r.contentType

\* ------------------------------------------------------------------------
\* What each suspended call does with the fetcher's result r
\* ------------------------------------------------------------------------

Failed(r) == r.tag = "throw" \/ ~r.readable

\* downloadMainPage after its await, then Phase 2 and the entry of Phase 3
downloadMainPage(g, l, r) ==
  IF Failed(r) THEN handleDownloadError(g, l)
  ELSE LET g1 == saveFile(g, IndexHtml,
                          [content |-> r.body, text |-> TRUE, size |-> BodyLen(r.body),
                           type |-> "html", url |-> l.target, contentType |-> "text/html"])
       IN  downloadStaticResources(updateProgress(extractStaticResourcesLog(g1, r.body, l.target), 20),
                                   [l EXCEPT !.ran = @ \cup {"extract"},
                                             !.degraded = ~ParseHTML(r.body).ok],
                                   extractStaticResources(r.body, l.target))

\* downloadSingleResource after its await
downloadSingleResource(g, url, r) ==
  IF Failed(r) THEN [ok |-> FALSE, g |-> g]
  ELSE LET contentType == getContentType(r)
           filename == generateFilename(url, contentType)
           fileType == determineFileType(filename, contentType)
           g1 == saveFile(g, filename,
                          [content |-> r.body, text |-> ReadsAsText(contentType),
                           size |-> BodyLen(r.body), type |-> fileType, url |-> url,
                           contentType |-> contentType])
       IN  [ok |-> TRUE, g |-> [g1 EXCEPT !.urls = @ \cup {url}]]

\* the loop of downloadStaticResources as it would be without its catch block
StaticFailedAborts(g, l) == handleDownloadError(g, l)

\* the catch block of the loop of downloadStaticResources
StaticFailed(g, l) ==
  StaticLoop(log(g, "warn", l.resourceUrls[l.i]), [l EXCEPT !.degraded = TRUE], l.i + 1)

StaticDone(g, l, r) ==
  LET d == downloadSingleResource(g, l.req.url, r) IN
  IF d.ok
  THEN StaticLoop(updateProgress(d.g, StaticProgress(l.downloaded + 1, Len(l.resourceUrls))),
                  [l EXCEPT !.downloaded = @ + 1], l.i + 1)
  ELSE StaticFailed(g, l)

\* processSourceMap after its await
processSourceMap(g, sourceMapUrl, r) ==
  IF Failed(r) THEN [g |-> log(g, "error", sourceMapUrl), count |-> 0, ok |-> FALSE]
  ELSE extractSourceFilesFromMap(
         saveFile(g, generateFilename(sourceMapUrl, "application/json"),
                  [content |-> r.body, text |-> TRUE, size |-> BodyLen(r.body),
                   type |-> "sourcemap", url |-> sourceMapUrl,
                   contentType |-> "application/json"]),
         r.body)

\* the loop of processSourceMaps after its await: extractedCount is what
\* processSourceMap returned
SourceMapDone(g, l, r) ==
  LET m == processSourceMap(g, l.req.url, r) IN
  SourceMapLoop([m.g EXCEPT !.counts = Append(@, m.count)],
                [l EXCEPT !.degraded = @ \/ ~m.ok], l.i + 1)

DynamicDone(g, l, r) ==
  LET d == downloadSingleResource(g, l.req.url, r) IN
  IF d.ok THEN DynamicLoop(d.g, l, l.i + 1)
  ELSE DynamicLoop(log(g, "warn", l.endpoints[l.i]), [l EXCEPT !.degraded = TRUE], l.i + 1)

Resume(g, l, r) ==
  CASE l.pc = "root" -> downloadMainPage(g, l, r)
    [] l.pc = "static" -> StaticDone(g, l, r)
    [] l.pc = "maps" -> SourceMapDone(g, l, r)
    [] l.pc = "dynamic" -> DynamicDone(g, l, r)

\* ------------------------------------------------------------------------
\* The relay: exports.handler (Netlify function) and fetch (Cloudflare
\* worker), each serving one request
\* ------------------------------------------------------------------------

\* the url query parameter is not there
NoParam == "<missing>"

RelayImpls == {"handler", "worker"}

RelayMethods == {"GET", "POST", "OPTIONS"}

RelayParams == {NoParam, "", "not a url", "ftp://x.test/", IconX, RootUrl, SmallUrl}

NoUpstream == [kind |-> "none", status |-> 0, ct |-> ""]

\* how the upstream request may end: a response with a status and a
\* content-type, a response whose body cannot be read, a rejected fetch, or
\* the abort the worker's 30 second timer causes
Upstreams ==
  [kind : {"response"}, status : {200, 404, 503}, ct : {"text/html", "image/png", ""}]
    \cup {[kind |-> k, status |-> 0, ct |-> ""] : k \in {"unreadable", "neterr", "abort"}}

NoAnswer == [status |-> 0, body |-> "none", base64 |-> FALSE]

\* no request is being served
RelayOff == [impl |-> "none", method |-> "", url |-> NoParam, stage |-> "off",
             up |-> NoUpstream, contacted |-> FALSE, answer |-> NoAnswer]

\* the validation both relays make as they would without the protocol test
RelayTargetParses(url) == URLParse(url).ok

\* new URL(url) and the test of its protocol against ['http:', 'https:']
RelayTargetValid(url) ==
  LET targetUrl == URLParse(url) IN
  targetUrl.ok /\ targetUrl.protocol \in {"http:", "https:"}

\* what both relays answer before any upstream request; "none" when they go upstream
RelayEarlyAnswer(method, url) ==
  IF method = "OPTIONS" THEN [status |-> 200, body |-> "empty", base64 |-> FALSE]
  ELSE IF url = NoParam \/ url = "" THEN [status |-> 400, body |-> "error", base64 |-> FALSE]
  ELSE IF ~RelayTargetValid(url) THEN [status |-> 400, body |-> "error", base64 |-> FALSE]
  ELSE NoAnswer

\* response.ok
StatusOk(status) == status >= 200 /\ status <= 299

\* the Netlify function's isBinary
RelayIsBinary(contentType) ==
  \A word \in {"text", "javascript", "json", "css", "html", "xml"} : ~CtIncludes(contentType, word)

\* exports.handler after its upstream fetch
handlerAnswer(up) ==
  IF up.kind = "neterr" THEN [status |-> 500, body |-> "error+message", base64 |-> FALSE]
  ELSE IF up.kind = "response" /\ ~StatusOk(up.status)
       THEN [status |-> up.status, body |-> "error", base64 |-> FALSE]
  ELSE IF up.kind = "unreadable" THEN [status |-> 500, body |-> "error+message", base64 |-> FALSE]
  ELSE LET contentType == IF up.ct = "" THEN "application/octet-stream" ELSE up.ct IN
       [status |-> 200, body |-> "content", base64 |-> RelayIsBinary(contentType)]

\* the worker's fetch after its upstream fetch
workerAnswer(up) ==
  IF up.kind \in {"neterr", "abort"} THEN [status |-> 500, body |-> "error+message", base64 |-> FALSE]
  ELSE IF ~StatusOk(up.status) THEN [status |-> up.status, body |-> "error", base64 |-> FALSE]
  ELSE [status |-> up.status, body |-> "content", base64 |-> FALSE]

\* ------------------------------------------------------------------------
\* Initial state and actions
\* ------------------------------------------------------------------------

NoFetch == [p |-> 0, result |-> "none", net |-> "none", body |-> "", puts |-> <<>>,
            pcts |-> <<>>, logs |-> <<>>, counts |-> <<>>]

\* the invocations of startDownload that are suspended at a network request
Running == {p \in Procs : proc[p].pc \in {"root", "static", "maps", "dynamic"}}

\* the invocations that have returned or were never made
Free == Procs \ Running

\* a click ends the history of the invocations that have returned: what is
\* kept of them (outcome, phases run) is kept until the next click only
Forget(pr) == [q \in Procs |-> IF q \in Running THEN pr[q] ELSE IdleProc]

Init ==
  /\ downloadedFiles = <<>>
  /\ downloadedUrls = {}
  /\ isDownloading = FALSE
  /\ stats = ZeroStats
  /\ startDisabled = FALSE
  /\ errorBox = "none"
  /\ progress = 0
  /\ proc = [p \in Procs |-> IdleProc]
  /\ cur = 0
  /\ last = NoFetch
  /\ cancelled = {}
  /\ stopActive = FALSE
  /\ origin = "none"
  /\ writers = {}
  /\ relay = RelayOff

validateInput(targetUrl) ==
  IF targetUrl = "" THEN FALSE
  ELSE IF ~isValidUrl(targetUrl) THEN FALSE
  ELSE TRUE

\* a click on #start-download with t in the URL field: startDownload up to
\* the first network request (validateInput, initializeDownload and the
\* entry of executeDownloadProcess)
startDownload(t) ==
  /\ ~startDisabled
  /\ UNCHANGED relay
  /\ IF ~validateInput(Trim(t))
     THEN /\ errorBox' = showError(Globals, "target").err
          /\ last' = [NoFetch EXCEPT !.logs = showError(Globals, "target").logs]
          /\ UNCHANGED <<downloadedFiles, downloadedUrls, isDownloading, stats, startDisabled,
                         progress, proc, cur, cancelled, stopActive, origin, writers>>
     ELSE /\ Free # {}
          /\ Running # {} => /\ Trim(t) \in OverlapTargets
                             /\ \A q \in Running : proc[q].target \in OverlapTargets
          /\ LET p == CHOOSE q \in Free : \A q2 \in Free : q <= q2 IN
               /\ cur' = p
               /\ proc' = [Forget(proc) EXCEPT ![p] = [IdleProc EXCEPT !.pc = "root",
                                                                       !.target = Trim(t),
                                                                       !.req = DirectReq(Trim(t)),
                                                                       !.pct = 5]]
               /\ cancelled' = cancelled \cap Running
          /\ isDownloading' = TRUE
          /\ downloadedFiles' = <<>>
          /\ downloadedUrls' = {}
          /\ stats' = ZeroStats
          /\ startDisabled' = TRUE
          /\ progress' = 5
          /\ last' = [NoFetch EXCEPT !.pcts = <<0, 5>>]
          /\ stopActive' = FALSE
          /\ origin' = IF origin = "reset" THEN "resetStart" ELSE "start"
          /\ writers' = {}
          /\ UNCHANGED errorBox

\* a click on #stop-download
stopDownload ==
  /\ UNCHANGED relay
  /\ isDownloading' = FALSE
  /\ startDisabled' = FALSE
  /\ cancelled' = Running
  /\ proc' = Forget(proc)
  /\ stopActive' = (stopActive \/ Running # {})
  /\ last' = NoFetch
  /\ UNCHANGED <<downloadedFiles, downloadedUrls, stats, errorBox, progress, cur,
                 origin, writers>>

\* a click on #reset-download
resetDownload ==
  /\ UNCHANGED relay
  /\ downloadedFiles' = <<>>
  /\ downloadedUrls' = {}
  /\ isDownloading' = FALSE
  /\ stats' = ZeroStats
  /\ errorBox' = "none"
  /\ startDisabled' = FALSE
  /\ stopActive' = FALSE
  /\ origin' = "reset"
  /\ writers' = {}
  /\ last' = NoFetch
  /\ proc' = Forget(proc)
  /\ cancelled' = cancelled \cap Running
  /\ UNCHANGED <<progress, cur>>

\* the pending request of invocation p completes with outcome net (and body,
\* when there is one); the invocation runs on to its next request or its end
FetchCompletes(p, net, body) ==
  /\ p \in Running
  /\ body \in Served(proc[p].req.url).bodies
  /\ LET l == proc[p]
         r == fetchWithCORS(l.req, net, body)
     IN  IF r.tag = "proxy"
         THEN /\ proc' = [proc EXCEPT ![p].req = [url |-> l.req.url, stage |-> "proxy"]]
              /\ last' = [NoFetch EXCEPT !.p = p, !.result = "retry", !.net = net, !.logs = r.logs]
              /\ UNCHANGED <<downloadedFiles, downloadedUrls, isDownloading, stats,
                             startDisabled, errorBox, progress, writers>>
         ELSE \E next \in {Resume(Globals, l, r)} :
              /\ proc' = [proc EXCEPT ![p] =
                            [next.l EXCEPT !.pct = IF next.g.pcts = <<>> THEN l.pct
                                                   ELSE Last(next.g.pcts),
                                           !.got = IF next.l.pc = "done" THEN {}
                                                   ELSE IF Failed(r) THEN l.got
                                                   ELSE l.got \cup {l.req.url}]]
              /\ downloadedFiles' = next.g.files
              /\ downloadedUrls' = next.g.urls
              /\ isDownloading' = next.g.on
              /\ stats' = next.g.stats
              /\ startDisabled' = next.g.disabled
              /\ errorBox' = next.g.err
              /\ progress' = next.g.progress
              /\ last' = [p |-> p, result |-> IF Failed(r) THEN "failed" ELSE "ok",
                          net |-> "none", body |-> r.body,
                          puts |-> next.g.puts, pcts |-> next.g.pcts,
                          logs |-> r.logs \o next.g.logs, counts |-> next.g.counts]
              /\ writers' = IF next.g.puts = <<>> THEN writers ELSE writers \cup {p}
  /\ UNCHANGED <<cur, cancelled, stopActive, origin, relay>>

Bodies == {"HTML", "HTMLBAD", "JSA", "JSB", "MAPA", "MAPNC", "MAPBAD", "APIU", "HTMLY", "JSY", "HTMLZ",
           "HTMLW", "JSW", "BIN"}

Next ==
  \/ \E t \in Targets : startDownload(t)
  \/ stopDownload
  \/ resetDownload
  \/ \E p \in Procs, net \in Outcomes, body \in Bodies : FetchCompletes(p, net, body)

Spec == Init /\ [][Next]_vars

\* the network answers every request: weak fairness of the completion of the
\* pending request of each invocation p, that is of
\*   WF_vars(\E net \in Outcomes, body \in Bodies : FetchCompletes(p, net, body)),
\* written out as "infinitely often disabled or infinitely often taken": the
\* completion is enabled exactly when p is suspended at a request, and its
\* steps are the steps that record p in last
NetworkAnswers(p) == []<>(p \notin Running) \/ []<><<last'.p = p>>_vars

LiveSpec == Init /\ [][Next]_vars /\ \A p \in Procs : NetworkAnswers(p)

\* ------------------------------------------------------------------------
\* The relay serving one request
\* ------------------------------------------------------------------------

pageVars == <<downloadedFiles, downloadedUrls, isDownloading, stats, startDisabled, errorBox,
              progress, proc, cur, last, cancelled, stopActive, origin, writers>>

\* a request arrives at one of the two relays
RelayInit ==
  /\ downloadedFiles = <<>> /\ downloadedUrls = {} /\ isDownloading = FALSE
  /\ stats = ZeroStats /\ startDisabled = FALSE /\ errorBox = "none" /\ progress = 0
  /\ proc = [p \in Procs |-> IdleProc] /\ cur = 0 /\ last = NoFetch
  /\ cancelled = {} /\ stopActive = FALSE /\ origin = "none" /\ writers = {}
  /\ \E impl \in RelayImpls, method \in RelayMethods, url \in RelayParams :
       relay = [RelayOff EXCEPT !.impl = impl, !.method = method, !.url = url,
                                !.stage = "received"]

\* the relay up to its answer or its upstream request
RelayReceive ==
  /\ relay.stage = "received"
  /\ LET early == RelayEarlyAnswer(relay.method, relay.url) IN
     relay' = IF early # NoAnswer
              THEN [relay EXCEPT !.stage = "answered", !.answer = early]
              ELSE [relay EXCEPT !.stage = "upstream", !.contacted = TRUE]
  /\ UNCHANGED pageVars

\* the upstream request ends and the relay answers
RelayUpstreamEnds(up) ==
  /\ relay.stage = "upstream"
  /\ up.kind = "abort" => relay.impl = "worker"
  /\ up.kind = "unreadable" => relay.impl = "handler"
  /\ relay' = [relay EXCEPT !.stage = "answered", !.up = up,
                            !.answer = IF relay.impl = "handler" THEN handlerAnswer(up)
                                       ELSE workerAnswer(up)]
  /\ UNCHANGED pageVars

RelayNext ==
  \/ RelayReceive
  \/ \E up \in Upstreams : RelayUpstreamEnds(up)

RelaySpec == RelayInit /\ [][RelayNext]_vars

\* ------------------------------------------------------------------------
\* Properties
\* ------------------------------------------------------------------------

RECURSIVE SumSizes(_)
SumSizes(puts) == IF puts = <<>> THEN 0 ELSE Head(puts).size + SumSizes(Tail(puts))

SuspendedPcs == {"root", "static", "maps", "dynamic"}

AllPhases == {"extract", "static", "maps", "dynamic"}

\* the targets that are parseable http/https URLs
HttpTargets == {RootUrl, SmallUrl, FrameUrl, PortalUrl}

\* C1: every insertion adds one entry to the catalog and leaves every entry
\* that was there as it was (an insertion under a name that is present is
\* stored under another name, it never replaces the record).
C1_InsertionNeverOverwrites ==
  [][last'.puts # <<>> =>
       /\ Len(downloadedFiles') = Len(downloadedFiles) + Len(last'.puts)
       /\ \A k \in 1..Len(downloadedFiles) : downloadedFiles'[k] = downloadedFiles[k]]_vars

\* C2: from stop() on a running session until the next start() or reset(),
\* no invocation issues a request for another URL than the one it was waiting
\* for, and every record of the catalog stays in it unchanged.
C2_StopHaltsAndPreserves ==
  [][(stopActive /\ stopActive') =>
       /\ \A p \in Running : proc'[p].pc \in SuspendedPcs => proc'[p].req.url = proc[p].req.url
       /\ \A k \in 1..Len(downloadedFiles) :
            \E j \in 1..Len(downloadedFiles') : downloadedFiles'[j] = downloadedFiles[k]]_vars

\* C3: the start() that follows reset() leaves an empty catalog, an empty
\* visited set and zero counters, and the catalog of the session it starts
\* never holds a record saved by another invocation than that session's.
C3_ResetStartNoCarryover ==
  /\ [][(origin = "reset" /\ origin' = "resetStart") =>
          /\ downloadedFiles' = <<>>
          /\ downloadedUrls' = {}
          /\ stats' = ZeroStats]_vars
  /\ [](origin = "resetStart" => writers \subseteq {cur})

\* C4: no catalog is written by two invocations of the pipeline.
C4_OneWriterPerCatalog == Cardinality(writers) <= 1

\* C5: an invocation that has returned either failed at the root page, having
\* entered no later phase and met no other failure, or went through all of
\* extraction, static download, map processing and endpoint scanning,
\* whatever non-root fetch or parse failed on the way.
C5_OnlyRootFailureEndsEarly ==
  \A p \in Procs :
    proc[p].pc = "done" =>
      \/ proc[p].outcome = "failed" /\ proc[p].ran = {} /\ ~proc[p].degraded
      \/ proc[p].outcome = "complete" /\ proc[p].ran = AllPhases

\* C5 witness: a session that completed all phases after a non-root failure
C5_Witness == \E p \in Procs : proc[p].outcome = "complete" /\ proc[p].degraded

\* C6: an invocation that was suspended when stop() ran never completes
\* (never reports 100% and the success result).
C6_CancelledNeverCompletes == \A p \in cancelled : proc[p].outcome # "complete"

\* C7: a request of a stopped invocation that completes while the flag is
\* cleared adds no record, no visited URL and changes no counter.
C7_InFlightResultDiscarded ==
  [][\A p \in cancelled \cap Running :
       (~isDownloading /\ proc'[p] # proc[p]) =>
         /\ downloadedFiles' = downloadedFiles
         /\ downloadedUrls' = downloadedUrls
         /\ stats' = stats]_vars

\* C8: the insertions of a step raise totalFiles by their number and totalSize
\* by the sum of their sizes in that step, and a step in which a fetch fails
\* changes no statistic.
C8_StatsFollowInsertions ==
  [][/\ last'.puts # <<>> =>
          /\ stats'.totalFiles = stats.totalFiles + Len(last'.puts)
          /\ stats'.totalSize = stats.totalSize + SumSizes(last'.puts)
     /\ last'.result = "failed" => stats' = stats]_vars

\* C8 witness: a step has made several insertions
C8_Witness == Len(last.puts) > 1 /\ stats.totalSize > 0

\* C9: a relay request is issued only after a direct request that failed at
\* network level, never after a response with a non-2xx status.
C9_RelayOnlyAfterNetworkFailure ==
  last.result = "retry" => last.net = "neterr"

\* C10: start() with a target that is not a parseable http/https URL issues no
\* request, starts no session and leaves the catalog, the visited set, the
\* counters and the flag as they were.
C10_InvalidStartChangesNothing ==
  [][\A t \in Targets \ HttpTargets :
       startDownload(t) =>
         UNCHANGED <<downloadedFiles, downloadedUrls, stats, isDownloading, startDisabled,
                     progress, proc, cur>>]_vars

\* C10 witness: the error of a rejected start() is shown and no session was ever started
C10_Witness == errorBox = "error" /\ cur = 0 /\ proc = [p \in Procs |-> IdleProc]

Extracted(sm) ==
  {i \in 1..Len(sm.sources) : shouldExtractSource(sm.sources[i], sm.sourcesContent[i])}

SourceRecords(files) == {k \in 1..Len(files) : files[k].file.type = "source"}

\* C12: when a map with sources and sourcesContent of equal length has been
\* processed, the catalog holds, for every index whose content is non-empty
\* and whose path is not filtered, a record under the cleaned path with
\* exactly that content, and one new record per such index.
C12_OneRecordPerSource ==
  [][(last'.result = "ok" /\ last'.p \in Procs /\ proc[last'.p].pc = "maps") =>
       LET sm == ParseJSON(last'.body) IN
       (sm.ok /\ sm.hasSources /\ sm.hasContent
              /\ Len(sm.sources) = Len(sm.sourcesContent)) =>
         /\ \A i \in Extracted(sm) :
              LET name == SrcDir \o cleanSourcePath(sm.sources[i]) IN
              /\ MapHas(downloadedFiles', name)
              /\ MapGet(downloadedFiles', name).content = sm.sourcesContent[i]
         /\ Cardinality(SourceRecords(downloadedFiles'))
              = Cardinality(SourceRecords(downloadedFiles)) + Cardinality(Extracted(sm))]_vars

\* the URLs of the sources l/u.js and ./l/u.js against the map https://x.test/p/a.js.map
FallbackUrls == {"https://x.test/p/l/u.js"}

\* C13: when a map with sources and without sourcesContent has been processed
\* in a session that was not stopped, the invocation goes on to fetch a
\* source path of that map.
C13_FallbackFetchPerSource ==
  [][(last'.result = "ok" /\ last'.p \in Procs /\ proc[last'.p].pc = "maps" /\ isDownloading) =>
       LET sm == ParseJSON(last'.body) IN
       (sm.ok /\ sm.hasSources /\ ~sm.hasContent) =>
         /\ proc'[last'.p].pc \in SuspendedPcs
         /\ proc'[last'.p].req.url \in FallbackUrls]_vars

\* the noise markers a cleaned path must not contain
NoiseMarkers ==
  { <<"w", "e", "b", "p", "a", "c", "k", "/">>,
    <<"n", "o", "d", "e", "_", "m", "o", "d", "u", "l", "e", "s", "/">>,
    <<"w", "e", "b", "p", "a", "c", "k", "/", "b", "o", "o", "t", "s", "t", "r", "a", "p">>,
    <<"w", "e", "b", "p", "a", "c", "k", "/", "r", "u", "n", "t", "i", "m", "e">>,
    <<"w", "e", "b", "p", "a", "c", "k", "-", "d", "e", "v", "-", "s", "e", "r", "v", "e", "r">>,
    <<"w", "e", "b", "p", "a", "c", "k", "-", "h", "o", "t", "-", "m", "i", "d", "d", "l", "e", "w", "a", "r", "e">>,
    <<"_", "_", "w", "e", "b", "p", "a", "c", "k">>,
    <<"w", "e", "b", "p", "a", "c", "k", "-", "i", "n", "t", "e", "r", "n", "a", "l", ":", "/", "/">> }

Noisy(path) ==
  \/ \E m \in NoiseMarkers : Includes(path, m)
  \/ StartsWith(path, <<"(", "w", "e", "b", "p", "a", "c", "k", ")">>)

\* C14: for every map in the catalog, an entry webpack:///... with content
\* whose cleaned path carries no noise marker has its record in the catalog
\* (the filter looks at the cleaned path, not at the raw one).
C14_FilterAfterCleaning ==
  \A k \in 1..Len(downloadedFiles) :
    downloadedFiles[k].file.type = "sourcemap" =>
      LET sm == ParseJSON(downloadedFiles[k].file.content) IN
      (sm.ok /\ sm.hasSources /\ sm.hasContent) =>
        \A i \in 1..Len(sm.sources) :
          ( /\ sm.sourcesContent[i] # ""
            /\ StartsWith(sm.sources[i], <<"w", "e", "b", "p", "a", "c", "k", ":", "/", "/", "/">>)
            /\ Len(cleanSourcePath(sm.sources[i])) >= 2
            /\ ~Noisy(cleanSourcePath(sm.sources[i])) )
          => MapHas(downloadedFiles, SrcDir \o cleanSourcePath(sm.sources[i]))

\* C15: no record extracted from a map lies under a path that carries a noise
\* marker, is empty or has fewer than 2 characters.
C15_NoNoiseExtracted ==
  \A k \in 1..Len(downloadedFiles) :
    downloadedFiles[k].file.type = "source" =>
      LET path == DropFirst(downloadedFiles[k].name, Len(SrcDir)) IN
      Len(path) >= 2 /\ ~Noisy(path)

\* the reference of an element that exposes href or src
RefOf(e) == IF e.href # NoAttr THEN e.href ELSE e.src

\* the resolver applied to the reference of every element of a document
RECURSIVE ResolveAll(_, _, _)
ResolveAll(els, base, acc) ==
  IF els = <<>> THEN acc
  ELSE ResolveAll(Tail(els), base, addResourceUrl(RefOf(Head(els)), base, acc))

SeqRange(seq) == {seq[k] : k \in 1..Len(seq)}

\* C16: when the root page has been parsed and the invocation waits for its
\* first static resource, the URLs it is about to fetch are exactly the
\* resolver's results over every element of the page that exposes href or
\* src, without duplicates.
C16_ExtractAllReferences ==
  [][(last'.result = "ok" /\ last'.p \in Procs /\ proc[last'.p].pc = "root"
        /\ Elements(last'.body).ok /\ proc'[last'.p].pc = "static") =>
       LET urls == proc'[last'.p].resourceUrls IN
       /\ SeqRange(urls) = SeqRange(ResolveAll(Elements(last'.body).els,
                                               proc[last'.p].target, <<>>))
       /\ Cardinality(SeqRange(urls)) = Len(urls)]_vars

\* C17: every URL in an invocation's list of resources to fetch has the
\* scheme http or https.
C17_OnlyHttpResources ==
  \A p \in Procs : \A k \in 1..Len(proc[p].resourceUrls) :
    URLParse(proc[p].resourceUrls[k]).protocol \in {"http:", "https:"}

\* C18: a relay request other than the preflight whose url parameter is
\* missing or is not an http/https URL is answered 400 with {error} and no
\* upstream request; an upstream response with a non-2xx status is answered
\* with that status and {error}; a failed or aborted upstream request is
\* answered 500 with {error, message}.
C18_RelayErrorAnswers ==
  relay.stage = "answered" =>
    /\ (relay.method # "OPTIONS" /\ (relay.url \in {NoParam, ""} \/ ~isValidUrl(relay.url))) =>
          relay.answer = [status |-> 400, body |-> "error", base64 |-> FALSE] /\ ~relay.contacted
    /\ (relay.up.kind = "response" /\ ~StatusOk(relay.up.status)) =>
          relay.answer.status = relay.up.status /\ relay.answer.body = "error"
    /\ relay.up.kind \in {"neterr", "abort", "unreadable"} =>
          relay.answer.status = 500 /\ relay.answer.body = "error+message"

\* the worker's timer aborted the upstream request and the worker answered
C18_Witness ==
  relay.stage = "answered" /\ relay.up.kind = "abort" /\ relay.answer.status = 500

\* C19: while the flag is cleared, an invocation that is suspended at a
\* request issues no other request: neither the relay request for the same
\* URL nor a request for another URL.
C19_NoRequestAfterStop ==
  [][\A p \in Running :
       (~isDownloading /\ ~isDownloading' /\ proc'[p].pc \in SuspendedPcs)
         => proc'[p].req = proc[p].req]_vars

\* C20: the completion of a fetch removes nothing from the visited set, and
\* no invocation requests a URL for which it has already received a
\* readable response.
C20_VisitedGrowsNoRefetch ==
  /\ [][last'.p \in Procs => downloadedUrls \subseteq downloadedUrls']_vars
  /\ [](\A p \in Running : proc[p].req.url \notin proc[p].got)

\* the URLs the /api/ literals of the scripts give against the document at base
ApiEndpointsOf(base) ==
  {URLResolve(lit, base) : lit \in UNION {SeqRange(ApiLiterals(b)) : b \in Bodies}}

\* the absolute URL literals of the scripts
AbsoluteLiterals == UNION {SeqRange(UrlLiterals(b)) : b \in Bodies}

\* C21: every endpoint an invocation has found in the scripts is an absolute
\* literal or an /api/ literal resolved against the URL of the root document
\* that invocation was started on, whatever was downloaded before the scan.
C21_EndpointsAgainstRoot ==
  \A p \in Procs : \A k \in 1..Len(proc[p].endpoints) :
    proc[p].endpoints[k] \in ApiEndpointsOf(proc[p].target) \cup AbsoluteLiterals

\* C22: a step of a pipeline leaves every record that stays in the catalog
\* as it was inserted: the record under a filename keeps its content, size,
\* source URL and kind.
C22_RecordsImmutable ==
  [][last'.p \in Procs =>
       \A k \in 1..Len(downloadedFiles) :
         MapHas(downloadedFiles', downloadedFiles[k].name) =>
           MapGet(downloadedFiles', downloadedFiles[k].name) = downloadedFiles[k].file]_vars

\* a line of level warn or error that names about
Logged(logs, about) ==
  \E k \in 1..Len(logs) : logs[k].about = about /\ logs[k].level \in {"warn", "error"}

\* C23: the step in which a direct request fails (network error or non-2xx
\* status), a fetch fails for good, a page or a map cannot be parsed, or a
\* reference of the page cannot be resolved writes a log line that names it.
C23_EveryErrorLogged ==
  [][last'.p \in Procs =>
       LET l == proc[last'.p] IN
       /\ last'.result = "retry" => Logged(last'.logs, l.req.url)
       /\ last'.result = "failed" =>
            Logged(last'.logs, IF l.pc = "root" THEN "main page" ELSE l.req.url)
       /\ (last'.result = "ok" /\ l.pc = "root") =>
            IF ~Elements(last'.body).ok THEN Logged(last'.logs, "HTML")
            ELSE \A k \in 1..Len(Elements(last'.body).els) :
                   LET ref == RefOf(Elements(last'.body).els[k]) IN
                   (RefShape(ref) = "invalid") => Logged(last'.logs, ref)
       /\ (last'.result = "ok" /\ l.pc = "maps" /\ ~ParseJSON(last'.body).ok) =>
            Logged(last'.logs, "source map")]_vars

RECURSIVE SumRecordSizes(_)
SumRecordSizes(files) ==
  IF files = <<>> THEN 0 ELSE Head(files).file.size + SumRecordSizes(Tail(files))

\* C25: totalFiles is the number of records in the catalog and totalSize is
\* the sum of their sizes.
C25_StatsMatchCatalog ==
  /\ stats.totalFiles = Len(downloadedFiles)
  /\ stats.totalSize = SumRecordSizes(downloadedFiles)

\* C26: every URL of the visited set is the source URL of a record of the
\* catalog.
C26_VisitedAreRetained ==
  \A url \in downloadedUrls :
    \E k \in 1..Len(downloadedFiles) : downloadedFiles[k].file.url = url

\* C27: an invocation that was suspended when stop() ran issues no request
\* for another URL and saves no record afterwards, also when a later start()
\* has set the flag again.
C27_CancellationPermanent ==
  [][\A p \in cancelled \cap Running :
       (isDownloading /\ proc'[p] # proc[p]) =>
         /\ proc'[p].pc \in SuspendedPcs => proc'[p].req.url = proc[p].req.url
         /\ last'.puts = <<>>]_vars

\* C28: a step of a pipeline clears the flag only when it is the return of
\* the invocation made by the latest start().
C28_FlagClearedByOwner ==
  [][(isDownloading /\ ~isDownloading' /\ last'.p \in Procs) => last'.p = cur]_vars

\* C29: from reset() until the next start() the catalog and the visited set
\* are empty and all counters are zero.
C29_ResetStaysEmpty ==
  origin = "reset" => downloadedFiles = <<>> /\ downloadedUrls = {} /\ stats = ZeroStats

\* C30: the count processSourceMap returns for a map is the number of source
\* records its call added to the catalog.
C30_CountIsRecordsAdded ==
  [][\A k \in 1..Len(last'.counts) :
       last'.counts[k] = Cardinality(SourceRecords(downloadedFiles'))
                           - Cardinality(SourceRecords(downloadedFiles))]_vars

====
